---- MODULE Spec2Model ----
(***************************************************************************)
(* Sloth verifiable delay function (alan22333/sloth_go).                   *)
(*                                                                         *)
(* The model follows src/unnamed/part_000: the constructor New, the two    *)
(* user-facing operations Compute and Verify (each as its loop, one        *)
(* iteration per step), and the permutation engine sigma / rho /           *)
(* rhoInverse / Tau / TauInverse as operators computed the way the code    *)
(* computes them on math/big integers.                                     *)
(*                                                                         *)
(* Compute and Verify call s.tau and s.tauInverse; the file defines the    *)
(* two methods under the names Tau and TauInverse (the comments above      *)
(* them call them tau and tauInverse), so the calls are modelled as calls  *)
(* of Tau and TauInverse.                                                  *)
(*                                                                         *)
(* The hash capability (sha256) is an external collaborator.  Its stand-in *)
(* HashFunc is a fixed deterministic function with a fixed-length digest,  *)
(* injective on the byte strings the model feeds it.                       *)
(***************************************************************************)
EXTENDS Integers, Sequences, FiniteSets, TLC

(* Bounds of the model. *)
MaxP == 19
MaxIter == 2
MaxByte == 18
MaxChain == 2

(* big.Int constants of the program. *)
bigOne == 1
bigTwo == 2
bigFour == 4
bigThree == 3

VARIABLES sloth, newArgs, newErr, pc, w, i, call, proof, ret, eng

vars == <<sloth, newArgs, newErr, pc, w, i, call, proof, ret, eng>>

(* ------------------------------------------------------------------ *)
(* Values: Go's nil error, nil slices and nil *big.Int                 *)
(* ------------------------------------------------------------------ *)

NoErr == "nil"
ErrIterations == "iterations must be positive"
ErrNotPrime == "p is not a prime number"
ErrCongruence == "p must be congruent to 3 (mod 4)"
ErrInputNil == "input cannot be nil"
ErrHashNil == "hash cannot be nil"
ErrWitnessNil == "witness cannot be nil"
ErrRange == "witness must be in the range [0, p-1]"
ErrHashMismatch == "hash of witness does not match provided hash"
ErrVerification == "verification failed: reversed witness does not match initial value"

NilBytes == [isNil |-> TRUE, bytes |-> <<>>]
Slice(b) == [isNil |-> FALSE, bytes |-> b]
NilInt == [isNil |-> TRUE, val |-> 0]
Int_(v) == [isNil |-> FALSE, val |-> v]
NilSloth == [isNil |-> TRUE, P |-> 0, Iterations |-> 0, sqrtExp |-> 0]

(* ------------------------------------------------------------------ *)
(* math/big                                                            *)
(* ------------------------------------------------------------------ *)

Abs(x) == IF x < 0 THEN -x ELSE x

(* Int.Mod: Euclidean modulus, the result is in [0, |m|-1]. *)
Mod(x, m) == x % Abs(m)

(* Int.Div: Euclidean division for a positive divisor. *)
Div(x, m) == x \div m

(* Int.Bit(0) of the absolute value. *)
Bit0(x) == Abs(x) % 2

RECURSIVE ExpLoop(_, _, _)
ExpLoop(x, y, m) ==
    IF y = 0 THEN 1 % m
    ELSE LET h == ExpLoop(x, y \div 2, m)
             sq == (h * h) % m
         IN IF y % 2 = 1 THEN (sq * (x % m)) % m ELSE sq

(* Int.Exp(x, y, m): x**y mod |m| for y >= 0. *)
Exp(x, y, m) == ExpLoop(x, y, Abs(m))

RECURSIVE TrailingZeroBits(_)
TrailingZeroBits(a) == IF a % 2 = 1 THEN 0 ELSE 1 + TrailingZeroBits(a \div 2)

RECURSIVE Rsh(_, _)
Rsh(a, s) == IF s = 0 THEN a ELSE Rsh(a \div 2, s - 1)

RECURSIVE JacobiLoop(_, _, _)
JacobiLoop(a, b, j) ==
    IF b = 1 THEN j
    ELSE IF a = 0 THEN 0
    ELSE LET a1 == a % b
         IN IF a1 = 0 THEN 0
            ELSE LET s == TrailingZeroBits(a1)
                     j1 == IF s % 2 = 1 /\ (b % 8 = 3 \/ b % 8 = 5) THEN -j ELSE j
                     c == Rsh(a1, s)
                     j2 == IF b % 4 = 3 /\ c % 4 = 3 THEN -j1 ELSE j1
                 IN JacobiLoop(b, c, j2)

(* big.Jacobi(x, y) for odd positive y. *)
Jacobi(x, y) == JacobiLoop(x, y, 1)

(* Int.ProbablyPrime: exact on the small integers of the model. *)
ProbablyPrime(n) == n > 1 /\ \A d \in 2..(n - 1) : n % d # 0

RECURSIVE NatToBytes(_)
NatToBytes(n) == IF n = 0 THEN <<>> ELSE Append(NatToBytes(n \div 256), n % 256)

(* Int.Bytes: the big-endian bytes of |x|, none for 0. *)
Bytes(x) == NatToBytes(Abs(x))

RECURSIVE SetBytes(_)
SetBytes(b) ==
    IF b = <<>> THEN 0
    ELSE SetBytes(SubSeq(b, 1, Len(b) - 1)) * 256 + b[Len(b)]

(* ------------------------------------------------------------------ *)
(* The hash capability                                                 *)
(* ------------------------------------------------------------------ *)

(* hasher.Write(b); hasher.Sum(nil): a two-byte digest. *)
HashFunc(b) ==
    LET v == (SetBytes(b) * 167 + Len(b) * 59 + 101) % 65536
    IN <<v \div 256, v % 256>>

(* bytes.Equal compares contents: a nil slice equals an empty one. *)
BytesEqual(a, b) == a.bytes = b.bytes

(* ------------------------------------------------------------------ *)
(* New                                                                 *)
(* ------------------------------------------------------------------ *)

(* New with the iteration check written as iterations < 0. *)
NewAcceptsZero(p, iterations) ==
    IF iterations < 0 THEN [s |-> NilSloth, err |-> ErrIterations]
    ELSE IF ~ProbablyPrime(p) THEN [s |-> NilSloth, err |-> ErrNotPrime]
    ELSE IF Mod(p, bigFour) # bigThree THEN [s |-> NilSloth, err |-> ErrCongruence]
    ELSE [s |-> [isNil |-> FALSE, P |-> p, Iterations |-> iterations,
                 sqrtExp |-> Div(p + bigOne, bigFour)],
          err |-> NoErr]

New(p, iterations) ==
    IF iterations <= 0 THEN [s |-> NilSloth, err |-> ErrIterations]
    ELSE IF ~ProbablyPrime(p) THEN [s |-> NilSloth, err |-> ErrNotPrime]
    ELSE IF Mod(p, bigFour) # bigThree THEN [s |-> NilSloth, err |-> ErrCongruence]
    ELSE [s |-> [isNil |-> FALSE, P |-> p, Iterations |-> iterations,
                 sqrtExp |-> Div(p + bigOne, bigFour)],
          err |-> NoErr]

(* ------------------------------------------------------------------ *)
(* Permutation engine                                                  *)
(* ------------------------------------------------------------------ *)

sigma(s, x) ==
    LET res == IF Bit0(x) = 0 THEN x - bigOne ELSE x + bigOne
    IN Mod(res, s.P)

sigmaInverse(s, x) == sigma(s, x)

(* rho returning the principal root without selecting the even one. *)
rhoNoParity(s, x) ==
    LET valToRoot == IF Jacobi(x, s.P) = 1 THEN x ELSE Mod(-x, s.P)
    IN Exp(valToRoot, s.sqrtExp, s.P)

rho(s, x) ==
    LET valToRoot == IF Jacobi(x, s.P) = 1 THEN x ELSE Mod(-x, s.P)
        root == Exp(valToRoot, s.sqrtExp, s.P)
    IN IF Bit0(root) = 0 THEN root ELSE s.P - root

(* The odd branch is new(big.Int).Neg(ySquared).Mod(ySquared, s.P): the   *)
(* receiver holds -ySquared and is then overwritten by ySquared mod P.    *)
rhoInverse(s, y) ==
    LET ySquared == Exp(y, bigTwo, s.P)
    IN IF Bit0(y) = 0 THEN ySquared
       ELSE LET z == -ySquared
                z2 == Mod(ySquared, s.P)
            IN z2

Tau(s, x) == rho(s, sigma(s, x))

TauInverse(s, y) == sigmaInverse(s, rhoInverse(s, y))

(* w0 = int(h(input)) mod p, as in Compute and in Verify. *)
Seed(s, input) == Mod(SetBytes(HashFunc(input)), s.P)

(* ------------------------------------------------------------------ *)
(* State machine                                                       *)
(* ------------------------------------------------------------------ *)

NoCall == [input |-> NilBytes, hash |-> NilBytes, witness |-> NilInt]
NoRet == [ok |-> FALSE, err |-> NoErr]
NoEng == [ops |-> <<>>, orig |-> 0, arg |-> 0, res |-> 0]

Inputs == {<<>>} \cup {<<b>> : b \in 0..MaxByte}

Init ==
    /\ sloth = NilSloth
    /\ newArgs = [p |-> 0, iterations |-> 0]
    /\ newErr = NoErr
    /\ pc = "init"
    /\ w = 0
    /\ i = 0
    /\ call = NoCall
    /\ proof = NoCall
    /\ ret = NoRet
    /\ eng = NoEng

CallNew ==
    /\ pc = "init"
    /\ \E p \in -1..MaxP, iterations \in -1..MaxIter :
          LET r == New(p, iterations)
          IN /\ sloth' = r.s
             /\ newErr' = r.err
             /\ newArgs' = [p |-> p, iterations |-> iterations]
             /\ pc' = IF r.s.isNil THEN "rejected" ELSE "ready"
    /\ UNCHANGED <<w, i, call, proof, ret, eng>>

(* Compute, lines 67-73: the seed. *)
ComputeStart ==
    /\ pc = "ready"
    /\ \E input \in Inputs :
          /\ call' = [input |-> Slice(input), hash |-> NilBytes, witness |-> NilInt]
          /\ w' = Seed(sloth, input)
    /\ i' = 0
    /\ pc' = "computing"
    /\ UNCHANGED <<sloth, newArgs, newErr, proof, ret, eng>>

(* Compute, lines 76-78: one iteration of the loop. *)
ComputeStep ==
    /\ pc = "computing"
    /\ i < sloth.Iterations
    /\ w' = Tau(sloth, w)
    /\ i' = i + 1
    /\ UNCHANGED <<sloth, newArgs, newErr, pc, call, proof, ret, eng>>

(* Compute, lines 80-87: the witness and its hash. *)
ComputeFinish ==
    /\ pc = "computing"
    /\ ~(i < sloth.Iterations)
    /\ proof' = [input |-> call.input,
                 hash |-> Slice(HashFunc(Bytes(w))),
                 witness |-> Int_(w)]
    /\ pc' = "computed"
    /\ UNCHANGED <<sloth, newArgs, newErr, w, i, call, ret, eng>>

(* The checks of Verify without the comparison of the digest. *)
VerifyChecksNoHash(s, input, hash, witness) ==
    IF input.isNil THEN ErrInputNil
    ELSE IF hash.isNil THEN ErrHashNil
    ELSE IF witness.isNil THEN ErrWitnessNil
    ELSE IF witness.val >= s.P \/ witness.val < 0 THEN ErrRange
    ELSE NoErr

(* The checks of Verify with the range check written as witness > P. *)
VerifyChecksOffByOne(s, input, hash, witness) ==
    IF input.isNil THEN ErrInputNil
    ELSE IF hash.isNil THEN ErrHashNil
    ELSE IF witness.isNil THEN ErrWitnessNil
    ELSE IF witness.val > s.P \/ witness.val < 0 THEN ErrRange
    ELSE IF ~BytesEqual(hash, Slice(HashFunc(Bytes(witness.val)))) THEN ErrHashMismatch
    ELSE NoErr

(* Verify, lines 98-118: the checks made before the loop. *)
VerifyChecks(s, input, hash, witness) ==
    IF input.isNil THEN ErrInputNil
    ELSE IF hash.isNil THEN ErrHashNil
    ELSE IF witness.isNil THEN ErrWitnessNil
    ELSE IF witness.val >= s.P \/ witness.val < 0 THEN ErrRange
    ELSE IF ~BytesEqual(hash, Slice(HashFunc(Bytes(witness.val)))) THEN ErrHashMismatch
    ELSE NoErr

(* Verify, lines 126-138: the comparison with the expected seed. *)
VerifyResult(s, input, wCheck) ==
    LET wStartExpected == Seed(s, input.bytes)
    IN IF wCheck = wStartExpected THEN [ok |-> TRUE, err |-> NoErr]
       ELSE [ok |-> FALSE, err |-> ErrVerification]

(* A digest with the byte at position k altered. *)
AlterByte(h, k) == Slice([h.bytes EXCEPT ![k] = (@ + 1) % 256])

(* The arguments a caller holding the proof of Compute hands to Verify. *)
VerifyInputs == {NilBytes} \cup {Slice(b) : b \in Inputs}

VerifyWitnesses ==
    {NilInt} \cup {Int_(v) : v \in (-1..sloth.P) \cup
                                   {proof.witness.val + sloth.P, proof.witness.val - sloth.P}}

VerifyHashes(witness) ==
    {NilBytes, proof.hash, Slice(HashFunc(Bytes(witness.val))),
     Slice(<<>>), Slice(Append(proof.hash.bytes, 0))}
        \cup {AlterByte(proof.hash, k) : k \in 1..Len(proof.hash.bytes)}

VerifyStart ==
    /\ pc = "computed"
    /\ \E input \in VerifyInputs, witness \in VerifyWitnesses :
         \E hash \in VerifyHashes(witness) :
          LET e == VerifyChecks(sloth, input, hash, witness)
          IN /\ call' = [input |-> input, hash |-> hash, witness |-> witness]
             /\ IF e # NoErr
                THEN /\ ret' = [ok |-> FALSE, err |-> e]
                     /\ pc' = "verified"
                     /\ UNCHANGED <<w, i>>
                ELSE /\ w' = witness.val
                     /\ i' = 0
                     /\ pc' = "verifying"
                     /\ UNCHANGED ret
    /\ UNCHANGED <<sloth, newArgs, newErr, proof, eng>>

(* Verify, lines 122-124: one iteration of the loop. *)
VerifyStep ==
    /\ pc = "verifying"
    /\ i < sloth.Iterations
    /\ w' = TauInverse(sloth, w)
    /\ i' = i + 1
    /\ UNCHANGED <<sloth, newArgs, newErr, pc, call, proof, ret, eng>>

VerifyFinish ==
    /\ pc = "verifying"
    /\ ~(i < sloth.Iterations)
    /\ ret' = VerifyResult(sloth, call.input, w)
    /\ pc' = "verified"
    /\ UNCHANGED <<sloth, newArgs, newErr, w, i, call, proof, eng>>

(* Direct calls of the engine on field elements: a first call on any x of *)
(* [0, P-1], then calls on the result of the call before.                 *)
EngineArgs ==
    IF pc = "ready" THEN 0..(sloth.P - 1)
    ELSE IF pc = "engine" /\ Len(eng.ops) < MaxChain THEN {eng.res}
    ELSE {}

EngineCall(op, x, res) ==
    /\ eng' = [ops |-> Append(eng.ops, op),
               orig |-> IF pc = "ready" THEN x ELSE eng.orig,
               arg |-> x,
               res |-> res]
    /\ pc' = "engine"
    /\ UNCHANGED <<sloth, newArgs, newErr, w, i, call, proof, ret>>

CallSigma == \E x \in EngineArgs : EngineCall("sigma", x, sigma(sloth, x))

CallSigmaInverse == \E x \in EngineArgs : EngineCall("sigmaInverse", x, sigmaInverse(sloth, x))

CallRho == \E x \in EngineArgs : EngineCall("rho", x, rho(sloth, x))

CallRhoInverse == \E x \in EngineArgs : EngineCall("rhoInverse", x, rhoInverse(sloth, x))

CallTau == \E x \in EngineArgs : EngineCall("Tau", x, Tau(sloth, x))

CallTauInverse == \E x \in EngineArgs : EngineCall("TauInverse", x, TauInverse(sloth, x))

Next ==
    \/ CallNew
    \/ ComputeStart
    \/ ComputeStep
    \/ ComputeFinish
    \/ VerifyStart
    \/ VerifyStep
    \/ VerifyFinish
    \/ CallSigma
    \/ CallSigmaInverse
    \/ CallRho
    \/ CallRhoInverse
    \/ CallTau
    \/ CallTauInverse

Spec == Init /\ [][Next]_vars

(* ------------------------------------------------------------------ *)
(* Properties                                                          *)
(* ------------------------------------------------------------------ *)

LastOp == eng.ops[Len(eng.ops)]

(* The proof tampered with as in C4: the witness incremented by one, or  *)
(* another (non-nil) digest, the rest as Compute returned it.            *)
WitnessPlusOne ==
    /\ call.input = proof.input
    /\ call.hash = proof.hash
    /\ ~call.witness.isNil
    /\ call.witness.val = proof.witness.val + 1

OtherDigest ==
    /\ call.input = proof.input
    /\ call.witness = proof.witness
    /\ ~call.hash.isNil
    /\ call.hash.bytes # proof.hash.bytes

(* C1: Verify run on the input of Compute and on the (digest, witness)  *)
(* pair Compute returned for it returns (true, nil).                    *)
C1_RoundTrip ==
    (pc = "verified" /\ call = proof) => (ret.ok /\ ret.err = NoErr)

(* C2: TauInverse applied to Tau(x) gives back x, for every x of        *)
(* [0, P-1].                                                            *)
C2_TauInverseOfTau ==
    (pc = "engine" /\ eng.ops = <<"Tau", "TauInverse">>) => eng.res = eng.orig

(* C3: Verify run on the (digest, witness) pair of Compute(input) and   *)
(* on an input whose seed differs from that of input returns            *)
(* (false, non-nil error).                                              *)
C3_InputTamper ==
    (/\ pc = "verified"
     /\ ~call.input.isNil
     /\ call.hash = proof.hash
     /\ call.witness = proof.witness
     /\ Seed(sloth, call.input.bytes) # Seed(sloth, proof.input.bytes))
    => (~ret.ok /\ ret.err # NoErr)

(* C4: Verify on the proof of Compute with the witness incremented by   *)
(* one, or with another digest, never reaches the tauInverse loop and   *)
(* returns (false, error): the range error when the witness was P-1 and *)
(* the hash-mismatch error otherwise for witness + 1, the hash-mismatch *)
(* error for another digest (the nil-digest error for a nil one).       *)
C4_ProofTamper ==
    (pc \in {"verifying", "verified"}) =>
        /\ WitnessPlusOne =>
              /\ pc = "verified"
              /\ ~ret.ok
              /\ ret.err = IF proof.witness.val = sloth.P - 1
                           THEN ErrRange ELSE ErrHashMismatch
        /\ OtherDigest =>
              /\ pc = "verified"
              /\ ~ret.ok
              /\ ret.err = ErrHashMismatch
        /\ (call.input = proof.input /\ call.witness = proof.witness /\ call.hash.isNil) =>
              /\ pc = "verified"
              /\ ~ret.ok
              /\ ret.err = ErrHashNil

(* C4's case: witness + 1 is still in the field and the hash check      *)
(* rejects it.                                                          *)
C4_Witness ==
    /\ pc = "verified"
    /\ WitnessPlusOne
    /\ call.witness.val < sloth.P
    /\ ret.err = ErrHashMismatch

(* C5: for a non-nil input and digest, Verify rejects every witness     *)
(* below 0 or at least P with the range error, whatever the digest, and *)
(* before the loop; it returns true only for a witness of [0, P-1].     *)
C5_WitnessRange ==
    (pc \in {"verifying", "verified"}) =>
        /\ (/\ ~call.input.isNil
            /\ ~call.hash.isNil
            /\ ~call.witness.isNil
            /\ (call.witness.val < 0 \/ call.witness.val >= sloth.P))
           => (pc = "verified" /\ ~ret.ok /\ ret.err = ErrRange)
        /\ (pc = "verified" /\ ret.ok)
           => (~call.witness.isNil /\ call.witness.val \in 0..(sloth.P - 1))

(* C5's case: the witness of Compute plus P, with the digest that       *)
(* matches its bytes, is rejected by the range check.                   *)
C5_Witness ==
    /\ pc = "verified"
    /\ call.input = proof.input
    /\ ~call.witness.isNil
    /\ call.witness.val = proof.witness.val + sloth.P
    /\ call.hash.bytes = HashFunc(Bytes(call.witness.val))
    /\ ret.err = ErrRange

(* Primality by counting divisors. *)
HasTwoDivisors(n) == Cardinality({d \in 1..n : n % d = 0}) = 2

(* C6: New returns an instance, with a nil error and sqrtExp = (p+1)/4, *)
(* exactly when iterations >= 1, p is prime and p mod 4 = 3; otherwise  *)
(* it returns no instance and the iterations error if iterations <= 0,  *)
(* else the not-prime error if p is not prime, else the congruence      *)
(* error.                                                               *)
C6_ConstructionValidation ==
    (pc # "init") =>
        LET p == newArgs.p
            it == newArgs.iterations
            valid == it >= 1 /\ HasTwoDivisors(p) /\ p % 4 = 3
        IN /\ ~sloth.isNil <=> valid
           /\ valid => /\ newErr = NoErr
                       /\ sloth.P = p
                       /\ sloth.Iterations = it
                       /\ 4 * sloth.sqrtExp = p + 1
           /\ ~valid => newErr = IF it <= 0 THEN ErrIterations
                                 ELSE IF ~HasTwoDivisors(p) THEN ErrNotPrime
                                 ELSE ErrCongruence

(* C6's case: a prime congruent to 1 mod 4 with a positive iteration    *)
(* count is rejected with the congruence error.                         *)
C6_Witness ==
    /\ pc = "rejected"
    /\ newArgs.p = 17
    /\ newArgs.iterations >= 1
    /\ sloth.isNil
    /\ newErr = ErrCongruence

(* C7: rhoInverse(y) is y^2 mod P for even y and (P - y^2 mod P) mod P  *)
(* for odd y.                                                           *)
C7_RhoInverseParityRule ==
    (pc = "engine" /\ LastOp = "rhoInverse") =>
        LET sq == (eng.arg * eng.arg) % sloth.P
        IN eng.res = IF eng.arg % 2 = 0 THEN sq ELSE (sloth.P - sq) % sloth.P

(* C8: sigmaInverse(sigma(x)) = sigma(sigma(x)) = x for every x of      *)
(* [0, P-1].                                                            *)
C8_SigmaInvolution ==
    (pc = "engine" /\ eng.ops \in {<<"sigma", "sigmaInverse">>, <<"sigma", "sigma">>})
    => eng.res = eng.orig

(* C9: the running state of Compute and of Verify, and the result of    *)
(* every engine call on a field element, is in [0, P-1]; rho returns an *)
(* even value whose square is x or -x mod P; rho and rhoInverse map 0   *)
(* to 0; the proof Compute returns passes the checks Verify makes       *)
(* before its loop.                                                     *)
C9_FieldRange ==
    /\ (pc \in {"computing", "verifying"}) => w \in 0..(sloth.P - 1)
    /\ (pc = "computed") =>
          /\ proof.witness.val \in 0..(sloth.P - 1)
          /\ VerifyChecks(sloth, proof.input, proof.hash, proof.witness) = NoErr
    /\ (pc = "engine") =>
          /\ eng.res \in 0..(sloth.P - 1)
          /\ (LastOp = "rho") =>
                /\ eng.res % 2 = 0
                /\ (eng.res * eng.res) % sloth.P \in {eng.arg, (sloth.P - eng.arg) % sloth.P}
          /\ (LastOp \in {"rho", "rhoInverse"} /\ eng.arg = 0) => eng.res = 0

(* C9's case: rho called on a non-zero non-residue, returning an even   *)
(* root of -x.                                                          *)
C9_Witness ==
    /\ pc = "engine"
    /\ LastOp = "rho"
    /\ eng.arg # 0
    /\ eng.res % 2 = 0
    /\ (eng.res * eng.res) % sloth.P # eng.arg
    /\ (eng.res * eng.res) % sloth.P = sloth.P - eng.arg

(* C10: when Verify(input, digest, witness) returns (true, nil), the    *)
(* pair (digest, witness) is the pair Compute(input) returns.           *)
C10_ProofUniqueness ==
    (pc = "verified" /\ ret.ok /\ call.input = proof.input)
    => (call.hash.bytes = proof.hash.bytes /\ call.witness = proof.witness)
====
